---- MODULE Spec2Model ----
(***************************************************************************)
(* Model of the knowledge-base retrieval, indexing and answering code of   *)
(* app_flask.py.                                                           *)
(*                                                                         *)
(* Texts are sequences of one-character strings.  BM25 scores are kept in  *)
(* fixed point: millionths before rounding, ten-thousandths after          *)
(* round(s, 4).                                                            *)
(***************************************************************************)
EXTENDS Integers, Sequences, FiniteSets, TLC

(* ---------------- bounds of the model ---------------- *)
MaxRows == 3

(* ---------------- program constants ---------------- *)
\* k1 = 1.5 and b = 0.75 as passed by retrieve, in halves and quarters
K1Halves == 3
BQuarters == 3
\* default of safe_int / topk
DefaultTopk == 4

(* ---------------- small helpers ---------------- *)
Range(s) == {s[i] : i \in 1..Len(s)}

Min(a, b) == IF a < b THEN a ELSE b

Max(a, b) == IF a > b THEN a ELSE b

\* Python's s[:n], also for negative n
Slice(s, n) ==
  IF n >= 0 THEN SubSeq(s, 1, Min(n, Len(s)))
  ELSE SubSeq(s, 1, Max(0, Len(s) + n))

(* ---------------- tokenize ---------------- *)
UpperChars == <<"A","B","C","D","E","F","G","H","I","J","K","L","M",
                "N","O","P","Q","R","S","T","U","V","W","X","Y","Z">>

LowerChars == <<"a","b","c","d","e","f","g","h","i","j","k","l","m",
                "n","o","p","q","r","s","t","u","v","w","x","y","z">>

DigitChars == {"0","1","2","3","4","5","6","7","8","9"}

\* the character class [A-Za-z0-9']
WordChars == Range(UpperChars) \cup Range(LowerChars) \cup DigitChars \cup {"'"}

\* str.lower() on one character
Lower(c) ==
  IF c \in Range(UpperChars)
  THEN LowerChars[CHOOSE i \in 1..Len(UpperChars) : UpperChars[i] = c]
  ELSE c

RECURSIVE FindAll(_, _, _, _)
\* _word_re.findall followed by lower(): maximal runs of word characters
FindAll(text, i, cur, acc) ==
  IF i > Len(text)
  THEN IF cur = <<>> THEN acc ELSE Append(acc, cur)
  ELSE IF text[i] \in WordChars
       THEN FindAll(text, i + 1, Append(cur, Lower(text[i])), acc)
       ELSE FindAll(text, i + 1, <<>>, IF cur = <<>> THEN acc ELSE Append(acc, cur))

tokenize(text) == FindAll(text, 1, <<>>, <<>>)

(* ---------------- build_corpus ---------------- *)
build_corpus(rs) ==
  [i \in 1..Len(rs) |->
     [row |-> rs[i], tokens |-> tokenize(rs[i].chunk), len |-> Len(tokenize(rs[i].chunk))]]

(* ---------------- bm25_rank ---------------- *)
\* ln(n) in millionths, n = 1..16
LnMicro == <<0, 693147, 1098612, 1386294, 1609438, 1791759, 1945910, 2079442,
             2197225, 2302585, 2397895, 2484907, 2564949, 2639057, 2708050, 2772589>>

\* N = len(docs) or 1
NDocs(docs) == IF Len(docs) = 0 THEN 1 ELSE Len(docs)

\* df[t]: number of documents containing t
DocFreq(t, docs) == Cardinality({i \in 1..Len(docs) : t \in Range(docs[i].tokens)})

\* idf[t] = log((N - df + 0.5) / (df + 0.5) + 1) = ln((2N + 2) / (2 df + 1)); 0.0 when df = 0
Idf(t, docs) ==
  IF DocFreq(t, docs) = 0 THEN 0
  ELSE LnMicro[2 * NDocs(docs) + 2] - LnMicro[2 * DocFreq(t, docs) + 1]

RECURSIVE SumLen(_)
\* sum(d["len"] for d in docs); avgdl = SumLen / N
SumLen(docs) == IF docs = <<>> THEN 0 ELSE Head(docs).len + SumLen(Tail(docs))

\* tf[t]
TermFreq(t, toks) == Cardinality({i \in 1..Len(toks) : toks[i] = t})

\* q_idf * (numer / denom), with numer = tf (k1 + 1) and
\* denom = tf + k1 (1 - b + b len / avgdl), both multiplied by 8 * SumLen
TermScore(q, d, docs) ==
  LET tf == TermFreq(q, d.tokens)
      S == SumLen(docs)
      numer == tf * (K1Halves + 2) * 4 * S
      denom == 8 * tf * S + K1Halves * ((4 - BQuarters) * S + BQuarters * d.len * NDocs(docs))
  IN (Idf(q, docs) * numer) \div denom

RECURSIVE DistinctInOrder(_, _)
DistinctInOrder(s, acc) ==
  IF s = <<>> THEN acc
  ELSE DistinctInOrder(Tail(s), IF Head(s) \in Range(acc) THEN acc ELSE Append(acc, Head(s)))

\* a faulty variant of QueryTerms: the loop runs over query_tokens, not over its set
QueryTermsRepeated(query_tokens) == query_tokens

\* the terms the scoring loop visits: set(query_tokens)
QueryTerms(query_tokens) == DistinctInOrder(query_tokens, <<>>)

RECURSIVE SumTerms(_, _, _)
SumTerms(qs, d, docs) ==
  IF qs = <<>> THEN 0
  ELSE (IF Head(qs) \in Range(d.tokens) THEN TermScore(Head(qs), d, docs) ELSE 0)
       + SumTerms(Tail(qs), d, docs)

\* the list scores: one pair <<s, row>> per document, in corpus order
Scores(query_tokens, docs) ==
  [i \in 1..Len(docs) |-> <<SumTerms(QueryTerms(query_tokens), docs[i], docs), docs[i].row>>]

\* a faulty variant of InsertSorted: ascending order
InsertSortedAscending(sorted, x) ==
  LET n == Cardinality({i \in 1..Len(sorted) : sorted[i][1] <= x[1]})
  IN SubSeq(sorted, 1, n) \o <<x>> \o SubSeq(sorted, n + 1, Len(sorted))

\* one step of the stable sort by x[0], reverse=True: x goes behind every
\* element whose key is not smaller
InsertSorted(sorted, x) ==
  LET n == Cardinality({i \in 1..Len(sorted) : sorted[i][1] >= x[1]})
  IN SubSeq(sorted, 1, n) \o <<x>> \o SubSeq(sorted, n + 1, Len(sorted))

RECURSIVE SortReverse(_)
\* sorted(pairs, key=lambda x: x[0], reverse=True)
SortReverse(pairs) ==
  IF pairs = <<>> THEN <<>>
  ELSE InsertSorted(SortReverse(SubSeq(pairs, 1, Len(pairs) - 1)), pairs[Len(pairs)])

PageKey(r) == <<r.source, r.page>>

\* a faulty variant of KeepFirst: every chunk is kept
KeepEvery(acc, x) == Append(acc, x)

\* if key not in best_per_page: best_per_page[key] = (s, r)
KeepFirst(acc, x) ==
  IF \E i \in 1..Len(acc) : PageKey(acc[i][2]) = PageKey(x[2]) THEN acc ELSE Append(acc, x)

RECURSIVE BestPerPage(_, _)
\* the values of best_per_page, in insertion order
BestPerPage(scores, acc) ==
  IF scores = <<>> THEN acc
  ELSE BestPerPage(Tail(scores), KeepFirst(acc, Head(scores)))

\* round(s, 4): millionths to ten-thousandths
Round4(s) == (s + 50) \div 100

\* a faulty variant of Truncate: one entry too many
TruncateOneMore(ranked, topk) == Slice(ranked, topk + 1)

\* [:topk]
Truncate(ranked, topk) == Slice(ranked, topk)

bm25_rank(query_tokens, docs, topk) ==
  LET scores == SortReverse(Scores(query_tokens, docs))
      ranked == Truncate(SortReverse(BestPerPage(scores, <<>>)), topk)
  IN [i \in 1..Len(ranked) |->
        [source |-> ranked[i][2].source, page |-> ranked[i][2].page,
         chunk |-> ranked[i][2].chunk, score |-> Round4(ranked[i][1])]]

(* ---------------- safe_int ---------------- *)
DigitSeq == <<"0","1","2","3","4","5","6","7","8","9">>

DigitVal(c) == (CHOOSE i \in 1..10 : DigitSeq[i] = c) - 1

RECURSIVE DigitsValue(_, _)
DigitsValue(ds, acc) ==
  IF ds = <<>> THEN acc ELSE DigitsValue(Tail(ds), 10 * acc + DigitVal(Head(ds)))

IsDigits(ds) == ds # <<>> /\ \A i \in 1..Len(ds) : ds[i] \in DigitChars

\* int(val) on a form value: an optional sign and decimal digits; anything
\* else raises and safe_int answers the default
safe_int(val, default) ==
  IF IsDigits(val) THEN DigitsValue(val, 0)
  ELSE IF val # <<>> /\ Head(val) = "-" /\ IsDigits(Tail(val)) THEN 0 - DigitsValue(Tail(val), 0)
  ELSE IF val # <<>> /\ Head(val) = "+" /\ IsDigits(Tail(val)) THEN DigitsValue(Tail(val), 0)
  ELSE default

(* ---------------- retrieve: the backfill ---------------- *)
\* len(r["chunk"]) > len(cur["chunk"])
LongerThan(r, cur) == Len(r.chunk) > Len(cur.chunk)

RECURSIVE BestByLen(_, _)
\* best_by_len as the sequence of its items <<key, row>> in insertion order
BestByLen(rs, acc) ==
  IF rs = <<>> THEN acc
  ELSE LET r == Head(rs)
           hit == {i \in 1..Len(acc) : acc[i][1] = PageKey(r)}
       IN BestByLen(Tail(rs),
            IF hit = {} THEN Append(acc, <<PageKey(r), r>>)
            ELSE LET i == CHOOSE j \in hit : TRUE
                 IN IF LongerThan(r, acc[i][2]) THEN [acc EXCEPT ![i] = <<PageKey(r), r>>]
                    ELSE acc)

\* a faulty variant of SortByLen: the items stay in insertion order
SortByLenNot(items) == [i \in 1..Len(items) |-> <<Len(items[i][2].chunk), items[i][2]>>]

\* sorted(best_by_len.items(), key=len of the chunk, reverse=True), as pairs <<len, row>>
SortByLen(items) ==
  SortReverse([i \in 1..Len(items) |-> <<Len(items[i][2].chunk), items[i][2]>>])

RECURSIVE FilterNew(_, _)
\* if k2 not in already
FilterNew(pairs, already) ==
  IF pairs = <<>> THEN <<>>
  ELSE (IF PageKey(Head(pairs)[2]) \in already THEN <<>> ELSE <<Head(pairs)>>)
       \o FilterNew(Tail(pairs), already)

Fillers(rs, res) ==
  LET pairs == FilterNew(SortByLen(BestByLen(rs, <<>>)), {PageKey(res[i]) : i \in 1..Len(res)})
  IN [i \in 1..Len(pairs) |->
        [source |-> pairs[i][2].source, page |-> pairs[i][2].page,
         chunk |-> pairs[i][2].chunk, score |-> 0]]

\* the backfill block of retrieve
Backfill(rs, res, topk) ==
  IF Len(res) < topk
  THEN res \o Slice(Fillers(rs, res), Max(0, topk - Len(res)))
  ELSE res

\* the BM25 block of retrieve
RankBlock(toks, rs, topk) ==
  IF toks # <<>> THEN bm25_rank(toks, build_corpus(rs), topk) ELSE <<>>

\* retrieve(query, k) on the rows it fetched
retrieve(rs, q, topk) ==
  IF rs = <<>> THEN <<>>
  ELSE Backfill(rs, RankBlock(tokenize(q), rs, topk), topk)

(* ---------------- inputs ---------------- *)
\* (source, page) pairs of the chunks a PDF upload can produce
Keys == {<<"a", 1>>, <<"a", 2>>, <<"b", 1>>}

\* chunk texts: "a", "A a", "b-c"
Texts == {<<"a">>, <<"A", " ", "a">>, <<"b", "-", "c">>}

RowSet == {[source |-> key[1], page |-> key[2], chunk |-> t] : key \in Keys, t \in Texts}

\* queries: "a A", "b a", "z", "-"
Queries == {<<"a", " ", "A">>, <<"b", " ", "a">>, <<"z">>, <<"-">>}

\* values of the form field topk: "", "0", "1", "2", "-1", "x"
TopkForms == {<<>>, <<"0">>, <<"1">>, <<"2">>, <<"-", "1">>, <<"x">>}

\* batches one flush_batch inserts
Batches == {<<r>> : r \in RowSet}

(* ---------------- state ---------------- *)
VARIABLES
  chunks,      \* the rows of table chunks, in rowid order
  pc,          \* position of the retrieve call
  query,       \* retrieve: its argument query
  k,           \* retrieve: its argument k
  q_tokens,    \* retrieve: tokenize(query)
  rows,        \* retrieve: the rows it fetched
  results,     \* retrieve: its list results
  writes,      \* number of writes to chunks made while a retrieve call was running, so far
  ipc,         \* position of the index_pdf call
  pi,          \* index_pdf: number of the page at hand
  seen,        \* index_pdf: the texts of the pages extracted so far
  gen,         \* index_pdf: what the generator chunk_text(txt) has yet to yield
  batch,       \* index_pdf: its list batch
  total_added, \* index_pdf: its counter total_added
  ret,         \* index_pdf: the value it returned
  swallowed,   \* index_pdf: the handler's flush_batch raised and the handler passed
  apc,         \* position of the answer call
  model,       \* answer: its argument model
  ctx,         \* answer: its list ctx
  attempt,     \* answer: the loop variable attempt
  requests,    \* answer: requests sent with the chosen model
  fallbacks,   \* answer: requests sent with the default model from the except block
  failures,    \* answer: requests that raised
  last_err,    \* answer: its variable last_err
  kpc,         \* position of the _chunk call
  page_text,   \* _chunk: its argument text, as runs of characters
  text,        \* _chunk: its variable text after " ".join(text.split()), as word lengths
  start,       \* _chunk: its variable start
  kchunks,     \* _chunk: its list chunks, a piece text[i:j] written <<i, j>>
  kret         \* _chunk: the list it returned, <<>> while it has not returned

retrieveVars == <<pc, query, k, q_tokens, rows, results>>

indexVars == <<ipc, pi, seen, gen, batch, total_added, ret, swallowed>>

answerVars == <<apc, model, ctx, attempt, requests, fallbacks, failures, last_err>>

ingestVars == <<kpc, page_text, text, start, kchunks, kret>>

vars == <<chunks, writes, retrieveVars, indexVars, answerVars, ingestVars>>

NoQuery == <<>>

None == "None"

RetrieveIdle ==
  /\ pc = "idle"
  /\ query = NoQuery
  /\ k = DefaultTopk
  /\ q_tokens = <<>>
  /\ rows = <<>>
  /\ results = <<>>

IndexIdle ==
  /\ ipc = "idle"
  /\ pi = 0
  /\ seen = <<>>
  /\ gen = <<>>
  /\ batch = <<>>
  /\ total_added = 0
  /\ ret = None
  /\ swallowed = FALSE

AnswerIdle ==
  /\ apc = "idle"
  /\ model = None
  /\ ctx = <<>>
  /\ attempt = 0
  /\ requests = 0
  /\ fallbacks = 0
  /\ failures = 0
  /\ last_err = None

IngestIdle ==
  /\ kpc = "idle"
  /\ page_text = <<>>
  /\ text = <<>>
  /\ start = 0
  /\ kchunks = <<>>
  /\ kret = <<>>

(* ---------------- retrieve, line by line ---------------- *)
\* lines 206-213: tokenize, SELECT ... FROM chunks, return [] on an empty table
RetrieveRead(q, form) ==
  /\ pc = "idle"
  /\ query' = q
  /\ k' = safe_int(form, DefaultTopk)
  /\ q_tokens' = tokenize(q)
  /\ rows' = chunks
  /\ results' = <<>>
  /\ pc' = IF chunks = <<>> THEN "done" ELSE "rank"
  /\ UNCHANGED <<chunks, writes, indexVars, answerVars, ingestVars>>

\* lines 216-219
RetrieveRank ==
  /\ pc = "rank"
  /\ results' = RankBlock(q_tokens, rows, k)
  /\ pc' = "backfill"
  /\ UNCHANGED <<chunks, query, k, q_tokens, rows, writes, indexVars, answerVars, ingestVars>>

\* a faulty variant of BackfillRows: the backfill reads the table again
BackfillRowsFresh(fetched, table) == table

\* the rows the backfill loop runs over: for r in rows
BackfillRows(fetched, table) == fetched

\* lines 222-236
RetrieveBackfill ==
  /\ pc = "backfill"
  /\ results' = Backfill(BackfillRows(rows, chunks), results, k)
  /\ pc' = "done"
  /\ UNCHANGED <<chunks, query, k, q_tokens, rows, writes, indexVars, answerVars, ingestVars>>

\* line 238 (and 213): the caller takes the list, the locals die
RetrieveReturn ==
  /\ pc = "done"
  /\ pc' = "idle"
  /\ query' = NoQuery
  /\ k' = DefaultTopk
  /\ q_tokens' = <<>>
  /\ rows' = <<>>
  /\ results' = <<>>
  /\ UNCHANGED <<chunks, writes, indexVars, answerVars, ingestVars>>

(* ---------------- writers of table chunks ---------------- *)
\* flush_batch of an index_pdf call: executemany INSERT and commit
flush_batch(b) ==
  /\ Len(chunks) + Len(b) <= MaxRows
  /\ chunks' = chunks \o b

\* clear_kb: DELETE FROM chunks
clear_kb ==
  /\ chunks # <<>>
  /\ chunks' = <<>>

\* an index_pdf call flushes a batch between two retrieve calls
FlushBetweenCalls(b) ==
  /\ pc = "idle"
  /\ flush_batch(b)
  /\ UNCHANGED <<writes, retrieveVars, indexVars, answerVars, ingestVars>>

\* the route /clear runs between two retrieve calls
ClearBetweenCalls ==
  /\ pc = "idle"
  /\ clear_kb
  /\ UNCHANGED <<writes, retrieveVars, indexVars, answerVars, ingestVars>>

Init ==
  /\ chunks = <<>>
  /\ writes = 0
  /\ RetrieveIdle
  /\ IndexIdle
  /\ AnswerIdle
  /\ IngestIdle

Next ==
  \/ \E q \in Queries, form \in TopkForms : RetrieveRead(q, form)
  \/ RetrieveRank
  \/ RetrieveBackfill
  \/ RetrieveReturn
  \/ \E b \in Batches : FlushBetweenCalls(b)
  \/ ClearBetweenCalls

Spec == Init /\ [][Next]_vars

(* ---------------- retrieve with concurrent writers ---------------- *)
MaxConcWrites == 2

\* tables the concurrent runs start from
ConcStart ==
  {<<>>,
   <<[source |-> "a", page |-> 1, chunk |-> <<"a">>],
     [source |-> "b", page |-> 1, chunk |-> <<"b", "-", "c">>]>>}

\* batches a concurrent index_pdf call flushes
ConcBatches ==
  {<<[source |-> "a", page |-> 1, chunk |-> <<"A", " ", "a">>]>>,
   <<[source |-> "a", page |-> 2, chunk |-> <<"A", " ", "a">>],
     [source |-> "a", page |-> 2, chunk |-> <<"a">>]>>}

\* another request thread flushes a batch while retrieve is between two of its lines
FlushDuringCall(b) ==
  /\ pc # "idle"
  /\ writes < MaxConcWrites
  /\ flush_batch(b)
  /\ writes' = writes + 1
  /\ UNCHANGED <<retrieveVars, indexVars, answerVars, ingestVars>>

\* another request thread clears the table while retrieve is between two of its lines
ClearDuringCall ==
  /\ pc # "idle"
  /\ writes < MaxConcWrites
  /\ clear_kb
  /\ writes' = writes + 1
  /\ UNCHANGED <<retrieveVars, indexVars, answerVars, ingestVars>>

InitConc ==
  /\ chunks \in ConcStart
  /\ writes = 0
  /\ RetrieveIdle
  /\ IndexIdle
  /\ AnswerIdle
  /\ IngestIdle

NextConc ==
  \/ \E q \in Queries, form \in TopkForms : RetrieveRead(q, form)
  \/ RetrieveRank
  \/ RetrieveBackfill
  \/ RetrieveReturn
  \/ \E b \in ConcBatches : FlushDuringCall(b)
  \/ ClearDuringCall

SpecConc == InitConc /\ [][NextConc]_vars

(* ---------------- claims on retrieve ---------------- *)
Pages(rs) == {PageKey(rs[i]) : i \in 1..Len(rs)}

\* indices of the chunks of page key in rs
ChunksOf(key, rs) == {i \in 1..Len(rs) : PageKey(rs[i]) = key}

NoSharedPage(res) ==
  \A i, j \in 1..Len(res) : i # j => PageKey(res[i]) # PageKey(res[j])

\* C1: after retrieve(query, k) with k >= 0 the result has min(k, number of
\* distinct (source, page) pairs of the corpus) entries on a non-empty corpus
\* and no entry on an empty corpus.
BoundInvariant ==
  (pc = "done" /\ k >= 0) =>
     Len(results) = IF rows = <<>> THEN 0 ELSE Min(k, Cardinality(Pages(rows)))

\* a call with k = 2 on three chunks over two pages has returned two entries
BoundWitness ==
  /\ pc = "done"
  /\ k = 2
  /\ Len(rows) = 3
  /\ Cardinality(Pages(rows)) = 2
  /\ q_tokens # <<>>
  /\ Len(results) = 2

\* C2: no two entries of the list retrieve returns share a (source, page)
\* pair, for every corpus, query and k.
DedupInvariant == pc = "done" => NoSharedPage(results)

\* a returned list of two entries over a corpus with two chunks on one page
DedupWitness ==
  /\ pc = "done"
  /\ Len(results) = 2
  /\ Len(rows) > Cardinality(Pages(rows))

\* C3: a call of retrieve with a negative k fails with an invalid-argument
\* error: it never gets to return a result list.
NegativeKRejected == ~(pc = "done" /\ k < 0)

\* C4: for k >= 1, a returned entry whose page has several chunks, none of
\* them containing a query token, is a longest chunk of its page.
LongestRepresentative ==
  (pc = "done" /\ k >= 1) =>
     \A i \in 1..Len(results) :
        LET mine == ChunksOf(PageKey(results[i]), rows)
        IN (/\ Cardinality(mine) > 1
            /\ \A j \in mine : Range(tokenize(rows[j].chunk)) \cap Range(q_tokens) = {})
           => \A j \in mine : Len(results[i].chunk) >= Len(rows[j].chunk)

\* C5: the returned list is the BM25 results in non-increasing score order,
\* followed by backfilled entries of score 0.0 in non-increasing chunk length,
\* none of them on a page of the BM25 results.
OrderInvariant ==
  pc = "done" =>
     LET bm == RankBlock(q_tokens, rows, k)
         n == Len(bm)
         m == Len(results)
     IN /\ m >= n
        /\ SubSeq(results, 1, n) = bm
        /\ \A i, j \in 1..n : i < j => results[i].score >= results[j].score
        /\ \A i \in (n + 1)..m :
              /\ results[i].score = 0
              /\ PageKey(results[i]) \notin {PageKey(bm[j]) : j \in 1..n}
        /\ \A i, j \in (n + 1)..m : i < j => Len(results[i].chunk) >= Len(results[j].chunk)

\* a returned list whose backfilled entries differ in length, behind a corpus
\* that starts with the shorter one
OrderWitness ==
  /\ pc = "done"
  /\ q_tokens = <<>>
  /\ Len(results) = 2
  /\ Len(results[1].chunk) > Len(results[2].chunk)
  /\ Len(rows[1].chunk) < Len(results[1].chunk)

\* a returned list of BM25 results with two different scores
OrderWitnessScored ==
  /\ pc = "done"
  /\ Len(results) = 2
  /\ results[1].score > results[2].score
  /\ results[2].score > 0

\* C6: under concurrent batch inserts and clear_kb, the list retrieve returns
\* is the one retrieve computes from the rows it fetched at its start: every
\* entry is a chunk of those rows, no two entries share a page, and for
\* k >= 0 the list has min(k, pages of those rows) entries.
SnapshotInvariant ==
  pc = "done" =>
     /\ results = retrieve(rows, query, k)
     /\ \A i \in 1..Len(results) :
           \E j \in 1..Len(rows) :
              /\ PageKey(rows[j]) = PageKey(results[i])
              /\ rows[j].chunk = results[i].chunk
     /\ NoSharedPage(results)
     /\ k >= 0 => Len(results) = IF rows = <<>> THEN 0 ELSE Min(k, Cardinality(Pages(rows)))

\* a call that returns entries after the table changed under it, different
\* from what the table holds now would give
SnapshotWitness ==
  /\ pc = "done"
  /\ writes > 0
  /\ chunks # rows
  /\ Len(results) > 0
  /\ results # retrieve(chunks, query, k)

Reverse(s) == [i \in 1..Len(s) |-> s[Len(s) + 1 - i]]

\* C7: bm25_rank on query tokens with repetitions returns the list it returns
\* on the distinct tokens, in either order of the distinct tokens.
RepeatedTokensInvariant ==
  (pc = "backfill" /\ q_tokens # <<>>) =>
     /\ results = bm25_rank(DistinctInOrder(q_tokens, <<>>), build_corpus(rows), k)
     /\ results = bm25_rank(Reverse(DistinctInOrder(q_tokens, <<>>)), build_corpus(rows), k)

\* bm25_rank has scored a corpus against a query that repeats a token
RepeatedTokensWitness ==
  /\ pc = "backfill"
  /\ Len(q_tokens) > Cardinality(Range(q_tokens))
  /\ Len(results) > 0
  /\ results[1].score > 0

\* the scores of the documents before rounding, in corpus order
RawScores == LET sc == Scores(q_tokens, build_corpus(rows)) IN [j \in 1..Len(sc) |-> sc[j][1]]

\* the best score of a page
BestScore(key, raw) ==
  CHOOSE s \in {raw[j] : j \in ChunksOf(key, rows)} :
     \A j \in ChunksOf(key, rows) : raw[j] <= s

\* the earliest chunk of a page that has the best score of the page
BestChunk(key, raw) ==
  CHOOSE j \in ChunksOf(key, rows) :
     /\ \A i \in ChunksOf(key, rows) : raw[i] <= raw[j]
     /\ \A i \in ChunksOf(key, rows) : raw[i] = raw[j] => j <= i

\* C8: every entry of bm25_rank's output is the earliest best-scoring chunk
\* of its page, the entries are in non-increasing order of best score with
\* equal scores in corpus order, no omitted page has a greater best score
\* than a returned one, and for topk >= 0 there are min(topk, pages) entries.
BestPerPageInvariant ==
  (pc = "backfill" /\ q_tokens # <<>>) =>
     \A raw \in {RawScores} : \A best \in {[key \in Pages(rows) |-> BestChunk(key, raw)]} :
     LET n == Len(results)
     IN /\ \A i \in 1..n :
              LET key == PageKey(results[i])
              IN /\ key \in Pages(rows)
                 /\ results[i].chunk = rows[best[key]].chunk
                 /\ results[i].score = Round4(BestScore(key, raw))
        /\ NoSharedPage(results)
        /\ \A i, j \in 1..n :
              i < j =>
                 \/ raw[best[PageKey(results[i])]] > raw[best[PageKey(results[j])]]
                 \/ /\ raw[best[PageKey(results[i])]] = raw[best[PageKey(results[j])]]
                    /\ best[PageKey(results[i])] < best[PageKey(results[j])]
        /\ \A key \in Pages(rows) \ {PageKey(results[i]) : i \in 1..n} :
              \A i \in 1..n : raw[best[key]] <= raw[best[PageKey(results[i])]]
        /\ k >= 0 => n = Min(k, Cardinality(Pages(rows)))

\* topk = 1 on two pages: the page returned has its best chunk behind a
\* weaker chunk of the same page, and the other page is left out
BestPerPageWitness ==
  /\ pc = "backfill"
  /\ q_tokens # <<>>
  /\ k = 1
  /\ Cardinality(Pages(rows)) = 2
  /\ Len(results) = 1
  /\ results[1].score > 0
  /\ \E j \in ChunksOf(PageKey(results[1]), rows) : j < BestChunk(PageKey(results[1]), RawScores)

(* ---------------- chunk_text ---------------- *)
PAGE_LIMIT == 5
CHUNK_SIZE == 1200
CHUNK_OVERLAP == 50
MIN_CHARS == 20
MAX_PAGE_CHARS == 120000
BATCH_INSERT == 50

RECURSIVE Windows(_, _, _)
\* the while loop of chunk_text on a text of n characters, from index i; a
\* piece text[i:j] is written <<i, j>>
Windows(n, i, acc) ==
  IF i >= n THEN acc
  ELSE LET j == Min(i + CHUNK_SIZE, n)
           out == IF j - i >= MIN_CHARS THEN Append(acc, <<i, j>>) ELSE acc
           nxt == j - CHUNK_OVERLAP
       IN IF j = n THEN out
          ELSE Windows(n, IF nxt > i THEN nxt ELSE j, out)

\* chunk_text(text) for a page whose whitespace-normalised text has len characters
chunk_text(len) ==
  IF len = 0 THEN <<>> ELSE Windows(Min(len, MAX_PAGE_CHARS), 0, <<>>)

(* ---------------- index_pdf ---------------- *)
\* lengths of the normalised text of a page
PageLens == {0, 15, 1300, 30000}

\* file_storage.filename
FileName == "a"

\* a faulty variant of FlushDue: the batch is flushed one chunk late
FlushDueLate(b) == Len(b) > BATCH_INSERT

\* if len(batch) >= BATCH_INSERT
FlushDue(b) == Len(b) >= BATCH_INSERT

\* lines 144-163: the call from do_index, page_limit = PAGE_LIMIT
IndexCall ==
  /\ ipc = "idle"
  /\ ipc' = "loop"
  /\ UNCHANGED <<chunks, pi, seen, gen, batch, total_added, ret, swallowed, writes, retrieveVars, answerVars, ingestVars>>

\* lines 165-173: the next page of reader.pages; past page_limit the loop
\* breaks, else the text is extracted and handed to chunk_text
NextPage(len) ==
  /\ ipc = "loop"
  /\ gen = <<>>
  /\ pi' = pi + 1
  /\ IF pi + 1 > PAGE_LIMIT
     THEN /\ ipc' = "flush"
          /\ UNCHANGED <<seen, gen>>
     ELSE /\ seen' = Append(seen, len)
          /\ gen' = chunk_text(len)
          /\ ipc' = "loop"
  /\ UNCHANGED <<chunks, batch, total_added, ret, swallowed, writes, retrieveVars, answerVars, ingestVars>>

\* line 165: reader.pages is exhausted
NoMorePages ==
  /\ ipc = "loop"
  /\ gen = <<>>
  /\ ipc' = "flush"
  /\ UNCHANGED <<chunks, pi, seen, gen, batch, total_added, ret, swallowed, writes, retrieveVars, answerVars, ingestVars>>

\* lines 173-177 with the flush_batch of lines 150-158 succeeding when due
TakeChunk ==
  /\ ipc = "loop"
  /\ gen # <<>>
  /\ LET b == Append(batch, [source |-> FileName, page |-> pi, chunk |-> Head(gen)])
     IN IF FlushDue(b)
        THEN /\ chunks' = chunks \o b
             /\ total_added' = total_added + Len(b)
             /\ batch' = <<>>
        ELSE /\ batch' = b
             /\ UNCHANGED <<chunks, total_added>>
  /\ gen' = Tail(gen)
  /\ UNCHANGED <<ipc, pi, seen, ret, swallowed, writes, retrieveVars, answerVars, ingestVars>>

\* lines 173-176 when the flush_batch that is due raises before its commit:
\* MemoryError goes to the handler, any other exception leaves index_pdf
TakeChunkFlushRaises(err) ==
  /\ ipc = "loop"
  /\ gen # <<>>
  /\ FlushDue(Append(batch, [source |-> FileName, page |-> pi, chunk |-> Head(gen)]))
  /\ batch' = Append(batch, [source |-> FileName, page |-> pi, chunk |-> Head(gen)])
  /\ gen' = Tail(gen)
  /\ ipc' = IF err = "MemoryError" THEN "handler" ELSE "raised"
  /\ UNCHANGED <<chunks, pi, seen, total_added, ret, swallowed, writes, retrieveVars, answerVars, ingestVars>>

\* line 174: the generator has yielded a chunk and batch.append raises MemoryError
AppendMemoryError ==
  /\ ipc = "loop"
  /\ gen # <<>>
  /\ gen' = Tail(gen)
  /\ ipc' = "handler"
  /\ UNCHANGED <<chunks, pi, seen, batch, total_added, ret, swallowed, writes, retrieveVars, answerVars, ingestVars>>

\* lines 170-173: extract_text or the generator raises MemoryError
LoopMemoryError ==
  /\ ipc = "loop"
  /\ ipc' = "handler"
  /\ UNCHANGED <<chunks, pi, seen, gen, batch, total_added, ret, swallowed, writes, retrieveVars, answerVars, ingestVars>>

\* lines 181, 193-194: flush remaining, return total_added
FinalFlush ==
  /\ ipc = "flush"
  /\ chunks' = chunks \o batch
  /\ total_added' = total_added + Len(batch)
  /\ batch' = <<>>
  /\ ret' = total_added + Len(batch)
  /\ ipc' = "returned"
  /\ UNCHANGED <<pi, seen, gen, swallowed, writes, retrieveVars, answerVars, ingestVars>>

\* line 181 when flush_batch raises before its commit
FinalFlushRaises(err) ==
  /\ ipc = "flush"
  /\ batch # <<>>
  /\ ipc' = IF err = "MemoryError" THEN "handler" ELSE "raised"
  /\ UNCHANGED <<chunks, pi, seen, gen, batch, total_added, ret, swallowed, writes, retrieveVars, answerVars, ingestVars>>

\* lines 183-191 with the handler's flush_batch succeeding
HandlerFlush ==
  /\ ipc = "handler"
  /\ chunks' = chunks \o batch
  /\ total_added' = total_added + Len(batch)
  /\ batch' = <<>>
  /\ ret' = total_added + Len(batch)
  /\ ipc' = "returned_partial"
  /\ UNCHANGED <<pi, seen, gen, swallowed, writes, retrieveVars, answerVars, ingestVars>>

\* lines 183-191 when the handler's flush_batch raises: except Exception: pass
HandlerFlushRaises ==
  /\ ipc = "handler"
  /\ batch # <<>>
  /\ swallowed' = TRUE
  /\ ret' = total_added
  /\ ipc' = "returned_partial"
  /\ UNCHANGED <<chunks, pi, seen, gen, batch, total_added, writes, retrieveVars, answerVars, ingestVars>>

FlushErrors == {"MemoryError", "OperationalError"}

InitIndex ==
  /\ chunks = <<>>
  /\ writes = 0
  /\ RetrieveIdle
  /\ IndexIdle
  /\ AnswerIdle
  /\ IngestIdle

NextIndex ==
  \/ IndexCall
  \/ \E len \in PageLens : NextPage(len)
  \/ NoMorePages
  \/ TakeChunk
  \/ \E err \in FlushErrors : TakeChunkFlushRaises(err)
  \/ AppendMemoryError
  \/ LoopMemoryError
  \/ FinalFlush
  \/ \E err \in FlushErrors : FinalFlushRaises(err)
  \/ HandlerFlush
  \/ HandlerFlushRaises

SpecIndex == InitIndex /\ [][NextIndex]_vars

(* ---------------- claims on index_pdf ---------------- *)
\* the pieces ws of page p as rows
RowsOfPage(p, ws) == [i \in 1..Len(ws) |-> [source |-> FileName, page |-> p, chunk |-> ws[i]]]

RECURSIVE RowsOfPages(_, _)
\* the chunks chunk_text yields for pages 1..p, as rows, in order
RowsOfPages(lens, p) ==
  IF p = 0 THEN <<>>
  ELSE RowsOfPages(lens, p - 1) \o RowsOfPage(p, chunk_text(lens[p]))

\* the chunks the generators have yielded so far
Yielded ==
  LET all == RowsOfPages(seen, Len(seen)) IN SubSeq(all, 1, Len(all) - Len(gen))

Returned == ipc \in {"returned", "returned_partial"}

\* C9, as stated: the batch never holds more than BATCH_INSERT chunks, and
\* when index_pdf returns the batch is empty, the table holds every yielded
\* chunk exactly once and the returned count is the number of rows inserted.
BatchFlushedAtReturn ==
  /\ Len(batch) <= BATCH_INSERT
  /\ Returned =>
        /\ batch = <<>>
        /\ chunks = Yielded
        /\ ret = Len(chunks)

IsPrefix(a, b) == Len(a) <= Len(b) /\ SubSeq(b, 1, Len(a)) = a

\* C9, amended: the batch never holds more than BATCH_INSERT chunks and the
\* returned count is the number of rows inserted; at the return that follows
\* the loop the batch is empty and the rows inserted are the yielded chunks,
\* each once; at the return of the MemoryError handler the rows inserted and
\* the batch are an initial part of the yielded chunks, and the batch is
\* non-empty only if the handler's flush_batch raised.
BatchInvariant ==
  /\ Len(batch) <= BATCH_INSERT
  /\ Returned => ret = Len(chunks)
  /\ ipc = "returned" => (batch = <<>> /\ chunks = Yielded)
  /\ ipc = "returned_partial" =>
        /\ IsPrefix(chunks \o batch, Yielded)
        /\ batch # <<>> => swallowed

\* a normal return after two flushes, the second one of a batch that was not full
BatchWitness ==
  /\ ipc = "returned"
  /\ Len(seen) >= 2
  /\ ret > BATCH_INSERT
  /\ ret % BATCH_INSERT # 0
  /\ chunks = Yielded

(* ---------------- answer ---------------- *)
MaxAttempts == 3

\* the model names the form of /ask can send
Models == {"llama-3.1-8b-instant", "other-model"}

\* what a request to the completion service does: it answers, it raises an
\* error whose message mentions the model, or it raises another error
Outcomes == {"ok", "model_error", "connection_error"}

\* "model" in str(e).lower()
MentionsModel(e) == e = "model_error"

\* rows of SELECT source, page, chunk FROM chunks LIMIT 4, with score 0
FirstFour(table) ==
  [i \in 1..Min(4, Len(table)) |->
     [source |-> table[i].source, page |-> table[i].page, chunk |-> table[i].chunk, score |-> 0]]

\* lines 274-288: ctx = retrieve(query, k), or the first four rows when empty
AnswerCall(q, form, m) ==
  /\ apc = "idle"
  /\ model' = m
  /\ ctx' = IF retrieve(chunks, q, safe_int(form, DefaultTopk)) # <<>>
            THEN retrieve(chunks, q, safe_int(form, DefaultTopk))
            ELSE FirstFour(chunks)
  /\ attempt' = 0
  /\ apc' = "try"
  /\ UNCHANGED <<chunks, writes, requests, fallbacks, failures, last_err, retrieveVars, indexVars, ingestVars>>

\* lines 290-299: the request of this attempt with the chosen model
Request(out) ==
  /\ apc = "try"
  /\ requests' = requests + 1
  /\ IF out = "ok"
     THEN /\ apc' = "returned"
          /\ UNCHANGED <<failures, last_err>>
     ELSE /\ failures' = failures + 1
          /\ last_err' = out
          /\ apc' = IF MentionsModel(out) THEN "fallback" ELSE "sleep"
  /\ UNCHANGED <<chunks, writes, model, ctx, attempt, fallbacks, retrieveVars, indexVars, ingestVars>>

\* lines 300-307: the request with the default model inside the except block
Fallback(out) ==
  /\ apc = "fallback"
  /\ fallbacks' = fallbacks + 1
  /\ IF out = "ok"
     THEN /\ apc' = "returned"
          /\ UNCHANGED <<failures, last_err>>
     ELSE /\ failures' = failures + 1
          /\ last_err' = out
          /\ apc' = "sleep"
  /\ UNCHANGED <<chunks, writes, model, ctx, attempt, requests, retrieveVars, indexVars, ingestVars>>

\* lines 308-309 and 289: time.sleep, then the next attempt or RuntimeError
Sleep ==
  /\ apc = "sleep"
  /\ attempt' = attempt + 1
  /\ apc' = IF attempt + 1 < MaxAttempts THEN "try" ELSE "raised"
  /\ UNCHANGED <<chunks, writes, model, ctx, requests, fallbacks, failures, last_err,
                 retrieveVars, indexVars, ingestVars>>

InitAnswer ==
  /\ chunks \in ConcStart
  /\ writes = 0
  /\ RetrieveIdle
  /\ IndexIdle
  /\ AnswerIdle
  /\ IngestIdle

NextAnswer ==
  \/ \E q \in Queries, form \in TopkForms, m \in Models : AnswerCall(q, form, m)
  \/ \E out \in Outcomes : Request(out)
  \/ \E out \in Outcomes : Fallback(out)
  \/ Sleep

SpecAnswer == InitAnswer /\ [][NextAnswer]_vars

(* ---------------- claims on answer ---------------- *)
\* C10: one call of answer sends the fallback request at most once, returns
\* at the first request that succeeds and raises RuntimeError only after all
\* three attempts have failed.
FallbackAtMostOnce ==
  /\ fallbacks <= 1
  /\ apc = "returned" => requests + fallbacks = failures + 1
  /\ apc = "raised" => (attempt = MaxAttempts /\ requests = MaxAttempts
                        /\ failures = requests + fallbacks)

(* ---------------- _chunk of kb/ingest.py ---------------- *)
\* the number of pieces the list chunks can hold before append raises MemoryError
MaxChunks == 24

\* the defaults of _chunk, also passed by ingest_uploaded_pdfs
size == 1000
overlap == 200

\* page["text"]: runs of n non-blank ("w") or n blank ("s") characters
PageTexts ==
  { <<>>,
    << <<"s", 3>> >>,
    << <<"w", 1>> >>,
    << <<"s", 1>>, <<"w", 100>>, <<"s", 2>>, <<"w", 99>>, <<"s", 1>> >>,
    << <<"w", 201>> >>,
    << <<"w", 1000>> >>,
    << <<"w", 600>>, <<"s", 4>>, <<"w", 600>> >>,
    << <<"w", 2500>> >> }

RECURSIVE SplitRuns(_, _, _)
\* text.split(): the lengths of the maximal runs of non-blank characters
SplitRuns(runs, cur, acc) ==
  IF runs = <<>>
  THEN IF cur = 0 THEN acc ELSE Append(acc, cur)
  ELSE IF Head(runs)[1] = "w"
       THEN SplitRuns(Tail(runs), cur + Head(runs)[2], acc)
       ELSE SplitRuns(Tail(runs), 0, IF cur = 0 THEN acc ELSE Append(acc, cur))

\* " ".join(text.split()), as the lengths of its words
Normalise(runs) == SplitRuns(runs, 0, <<>>)

RECURSIVE TextLen(_)
\* len(text) of a normalised text: its words and one blank between two words
TextLen(words) ==
  IF words = <<>> THEN 0
  ELSE Head(words) + (IF Len(words) > 1 THEN 1 ELSE 0) + TextLen(Tail(words))

RECURSIVE SpaceAt(_, _)
\* text[i] is a blank, i counted from 0
SpaceAt(words, i) ==
  IF words = <<>> \/ i < Head(words) THEN FALSE
  ELSE IF i = Head(words) THEN Len(words) > 1
  ELSE SpaceAt(Tail(words), i - Head(words) - 1)

\* not c.strip(), for the piece c = text[i:j]
Blank(words, c) == \A i \in c[1]..(c[2] - 1) : SpaceAt(words, i)

RECURSIVE NonBlank(_, _)
\* [c for c in chunks if c.strip()]
NonBlank(words, cs) ==
  IF cs = <<>> THEN <<>>
  ELSE (IF Blank(words, Head(cs)) THEN <<>> ELSE <<Head(cs)>>) \o NonBlank(words, Tail(cs))

\* lines 42-44: normalise the text, chunks = [], start = 0
ChunkCall ==
  /\ kpc = "called"
  /\ text' = Normalise(page_text)
  /\ start' = 0
  /\ kchunks' = <<>>
  /\ kpc' = "loop"
  /\ UNCHANGED <<page_text, kret, chunks, writes, retrieveVars, indexVars, answerVars>>

\* lines 45-50: one pass of the while loop
ChunkLoop ==
  /\ kpc = "loop"
  /\ start < TextLen(text)
  /\ Len(kchunks) < MaxChunks
  /\ LET end == Min(start + size, TextLen(text))
     IN /\ kchunks' = Append(kchunks, <<start, end>>)
        /\ start' = IF end - overlap < 0 THEN 0 ELSE end - overlap
  /\ UNCHANGED <<kpc, page_text, text, kret, chunks, writes, retrieveVars, indexVars, answerVars>>

\* line 47: chunks.append raises MemoryError once the list cannot grow
ChunkAppendMemoryError ==
  /\ kpc = "loop"
  /\ start < TextLen(text)
  /\ Len(kchunks) >= MaxChunks
  /\ kpc' = "memory_error"
  /\ UNCHANGED <<page_text, text, start, kchunks, kret, chunks, writes,
                 retrieveVars, indexVars, answerVars>>

\* lines 45 and 51: the loop condition fails and the non-blank pieces are returned
ChunkReturn ==
  /\ kpc = "loop"
  /\ start >= TextLen(text)
  /\ kret' = NonBlank(text, kchunks)
  /\ kpc' = "returned"
  /\ UNCHANGED <<page_text, text, start, kchunks, chunks, writes,
                 retrieveVars, indexVars, answerVars>>

\* one call _chunk(page["text"], size=1000, overlap=200) of ingest_uploaded_pdfs
InitChunk ==
  /\ chunks = <<>>
  /\ writes = 0
  /\ RetrieveIdle
  /\ IndexIdle
  /\ AnswerIdle
  /\ kpc = "called"
  /\ page_text \in PageTexts
  /\ text = <<>>
  /\ start = 0
  /\ kchunks = <<>>
  /\ kret = <<>>

NextChunk ==
  \/ ChunkCall
  \/ ChunkLoop
  \/ ChunkAppendMemoryError
  \/ ChunkReturn

\* the interpreter keeps running a call that can take a step
SpecChunk == InitChunk /\ [][NextChunk]_vars /\ WF_vars(NextChunk)

(* ---------------- claims on _chunk ---------------- *)
\* C11: every call _chunk(text, 1000, 200) terminates: its while loop ends
\* and the call returns (ChunkReturn hands back the list of non-blank chunks).
ChunkTerminates == (kpc = "called") ~> (kpc = "returned")

\* the loop's guard and body depend on start and text alone, so the loop can
\* only end if every pass moves start forward; the first pass whose end is
\* len(text) does not, whatever the list can hold
StartAdvances == [][ChunkLoop => start' > start]_vars

====
